---- MODULE Spec2Model ----
(***************************************************************************)
(* Model of scripts/prepend-license-notice.py.                             *)
(*                                                                         *)
(* A file on disk is a sequence of characters.  The characters that decide *)
(* the program's behaviour are kept; runs of other text are one atom:      *)
(*   "NL"      the newline character                                       *)
(*   "MARKER"  the text of NOTICE_MARKER                                   *)
(*   "COPY"    the text of the second line of NOTICE                       *)
(*   "."       the full stop that ends the first line of NOTICE            *)
(*   "#" "!" "/" "%" " "   themselves                                      *)
(*   "x"       any other non-blank text                                    *)
(* Reading a file splits the characters into lines (each keeping its       *)
(* newline), writing a list of lines concatenates them, as readlines() and *)
(* writelines() do.                                                        *)
(***************************************************************************)
EXTENDS Integers, Sequences, FiniteSets, TLC

VARIABLES
    \* ---- one file, as the per-file functions see it
    content,      \* the characters of the file on disk
    suffix,       \* file_path.suffix, a sequence of characters
    pc,           \* position inside decide_notice / the call sequence
    old,          \* decide_notice: result of has_file_notice
    prefix,       \* decide_notice / insert_notice: the comment prefix
    insert_line,  \* decide_notice / insert_notice: the requested line
    run,          \* which call of decide_notice is in progress
    before,       \* the file when the current call began
    first,        \* the file after the first call of decide_notice returned
    mid,          \* the file as decide_notice's classification read it
    start,        \* remove_existing_notice: its start argument
    \* ---- one invocation of main()
    args,         \* sys.argv[1:]
    git,          \* what the git queries answer in this directory
    fs,           \* the files: path -> [r, w, content]
    fs0,          \* the files when main() began
    mpc,          \* position inside main()
    argi,         \* index of the path argument being handled (1-based)
    todo,         \* directory walk: files rglob has still to yield
    rc,           \* main's return value / the exit code
    queries,      \* the git queries made so far, in order
    processed     \* the paths decide_notice was called on, in order

fileVars == <<content, suffix, pc, old, prefix, insert_line, run, before, first, mid, start>>
mainVars == <<args, git, fs, fs0, mpc, argi, todo, rc, queries, processed>>
vars == <<fileVars, mainVars>>

----------------------------------------------------------------------------
(* Bounds of the model *)

\* lines of free content in an initial file
MaxBody == 3
\* ordinary lines put in front of the free content
MaxPad == 5

----------------------------------------------------------------------------
(* Configuration: lines 16-29 *)

NOTICE == <<"MARKER", ".", "NL", "COPY", "NL">>
NOTICE_MARKER == "MARKER"

C_EXTS == { <<".", "c">>, <<".", "c", "p", "p">>, <<".", "h">>, <<".", "h", "p", "p">> }
SCRIPT_EXTS == { <<".", "s", "h">>, <<".", "b", "a", "s", "h">>, <<".", "p", "y">> }
TEX_EXTS == { <<".", "t", "e", "x">> }

\* has_file_notice's default for end
DefaultEnd == 5

----------------------------------------------------------------------------
(* Python's text primitives *)

Min(a, b) == IF a < b THEN a ELSE b
Max(a, b) == IF a > b THEN a ELSE b

\* index of the first newline of s, or Len(s) when there is none
LineEnd(s) ==
    IF \E k \in 1..Len(s) : s[k] = "NL"
    THEN CHOOSE k \in 1..Len(s) : s[k] = "NL" /\ \A j \in 1..(k-1) : s[j] # "NL"
    ELSE Len(s)

\* f.readline(): the first line of s with its newline, "" at end of file
ReadLine(s) == SubSeq(s, 1, LineEnd(s))

\* f.readlines(): the lines of s, each with its newline
RECURSIVE ReadLines(_)
ReadLines(s) ==
    IF s = <<>> THEN <<>>
    ELSE <<ReadLine(s)>> \o ReadLines(SubSeq(s, LineEnd(s) + 1, Len(s)))

\* f.writelines(lines): the lines one after the other, nothing added
RECURSIVE WriteLines(_)
WriteLines(lines) ==
    IF lines = <<>> THEN <<>> ELSE Head(lines) \o WriteLines(Tail(lines))

\* str.splitlines(): the lines of s without their newlines
SplitLines(s) ==
    LET ls == ReadLines(s)
    IN [k \in 1..Len(ls) |->
          IF ls[k][Len(ls[k])] = "NL" THEN SubSeq(ls[k], 1, Len(ls[k]) - 1) ELSE ls[k]]

\* NOTICE_MARKER in line
HasMarker(line) == \E k \in 1..Len(line) : line[k] = NOTICE_MARKER

\* line.strip() == ""
IsBlank(line) == \A k \in 1..Len(line) : line[k] \in {" ", "NL"}

\* line.startswith("#!")
StartsWithShebang(line) == Len(line) >= 2 /\ line[1] = "#" /\ line[2] = "!"

\* lines[:n]
SliceTo(lines, n) ==
    IF n >= 0 THEN SubSeq(lines, 1, Min(n, Len(lines)))
    ELSE SubSeq(lines, 1, Max(0, Len(lines) + n))

\* lines[n:]
SliceFrom(lines, n) ==
    IF n >= 0 THEN SubSeq(lines, Min(n, Len(lines)) + 1, Len(lines))
    ELSE SubSeq(lines, Max(0, Len(lines) + n) + 1, Len(lines))

\* lines[i] for -len <= i < len
Item(lines, i) == IF i >= 0 THEN lines[i + 1] ELSE lines[Len(lines) + i + 1]

\* the letters the suffixes of the model are written with
UpperChars == <<"A", "B", "C", "E", "H", "P", "S", "T", "X", "Y">>
LowerChars == <<"a", "b", "c", "e", "h", "p", "s", "t", "x", "y">>

\* a lower() that leaves the characters as they are
LowerAsIs(s) == s

\* str.lower()
Lower(s) ==
    [k \in 1..Len(s) |->
        IF \E u \in 1..Len(UpperChars) : UpperChars[u] = s[k]
        THEN LowerChars[CHOOSE u \in 1..Len(UpperChars) : UpperChars[u] = s[k]]
        ELSE s[k]]

----------------------------------------------------------------------------
(* The per-file functions *)

\* has_file_notice(file_path, end): lines 83-94
RECURSIVE ScanFrom(_, _, _)
ScanFrom(s, ln, end) ==
    IF ln >= end THEN -1
    ELSE IF HasMarker(ReadLine(s)) THEN ln
    ELSE ScanFrom(SubSeq(s, LineEnd(s) + 1, Len(s)), ln + 1, end)

\* a has_file_notice that scans the whole file
has_file_notice_whole(s, end) == ScanFrom(s, 0, Len(s) + 1)

has_file_notice(s, end) == ScanFrom(s, 0, end)

\* insert_notice(file_path, prefix, insert_line): lines 97-115
insert_notice(s, pfx, il) ==
    LET lines == ReadLines(s)
        nl == SplitLines(NOTICE)
        notice_lines == [k \in 1..Len(nl) |-> pfx \o nl[k] \o <<"NL">>]
        insert_index == Max(0, Min(il, Len(lines)))
    IN WriteLines(SliceTo(lines, insert_index) \o notice_lines
                  \o << <<"NL">> >> \o SliceFrom(lines, insert_index))

\* the loop of remove_existing_notice: lines 133-146
RECURSIVE RemoveLoop(_, _, _, _)
RemoveLoop(lines, i, skipping, out) ==
    IF i >= Len(lines) THEN out
    ELSE IF skipping = 0 THEN
        IF HasMarker(Item(lines, i))
        THEN RemoveLoop(lines, i + 1, 1, out)
        ELSE RemoveLoop(lines, i + 1, 0, Append(out, Item(lines, i)))
    ELSE IF skipping = 1 THEN
        IF IsBlank(Item(lines, i))
        THEN RemoveLoop(lines, i + 1, 2, out)
        ELSE RemoveLoop(lines, i + 1, 1, out)
    ELSE RemoveLoop(lines, i + 1, 2, Append(out, Item(lines, i)))

\* a loop that goes on scanning after the first notice (state 2 never entered)
RECURSIVE RemoveLoopAll(_, _, _, _)
RemoveLoopAll(lines, i, skipping, out) ==
    IF i >= Len(lines) THEN out
    ELSE IF skipping = 0 THEN
        IF HasMarker(Item(lines, i))
        THEN RemoveLoopAll(lines, i + 1, 1, out)
        ELSE RemoveLoopAll(lines, i + 1, 0, Append(out, Item(lines, i)))
    ELSE IF IsBlank(Item(lines, i))
        THEN RemoveLoopAll(lines, i + 1, 0, out)
        ELSE RemoveLoopAll(lines, i + 1, 1, out)

\* a remove_existing_notice that removes every notice
remove_every_notice(s, st) ==
    LET lines == ReadLines(s)
    IN WriteLines(RemoveLoopAll(lines, st, 0, SliceTo(lines, st)))

\* remove_existing_notice(path, start): lines 118-151
remove_existing_notice(s, st) ==
    LET lines == ReadLines(s)
    IN WriteLines(RemoveLoop(lines, st, 0, SliceTo(lines, st)))

\* decide_notice, lines 167-182: the prefix for a suffix
PrefixFor(sfx) ==
    LET sl == Lower(sfx)
    IN IF sl \in C_EXTS THEN <<"/", "/", " ">>
       ELSE IF sl \in SCRIPT_EXTS THEN <<"#", " ">>
       ELSE IF sl \in TEX_EXTS THEN <<"%", " ">>
       ELSE <<"/", "/", " ">>

\* decide_notice, lines 167-182: the insertion line for a suffix and a file
InsertLineFor(sfx, s) ==
    LET sl == Lower(sfx)
    IN IF sl \in C_EXTS THEN 0
       ELSE IF sl \in SCRIPT_EXTS
            THEN IF StartsWithShebang(ReadLine(s)) THEN 1 ELSE 0
       ELSE 0

\* decide_notice(file_path) as a whole: lines 154-184
decide_notice(s, sfx) ==
    LET o == has_file_notice(s, DefaultEnd)
        s1 == IF o # -1 THEN remove_existing_notice(s, o) ELSE s
    IN insert_notice(s1, PrefixFor(sfx), InsertLineFor(sfx, s1))

----------------------------------------------------------------------------
(* The files and suffixes the checks start from *)

\* what one line of an initial file holds before its newline: nothing, text,
\* white space, text with the marker in it, a shebang
LineKinds == { <<>>, <<"x">>, <<" ">>, <<"x", "MARKER">>, <<"#", "!">> }

Bodies == UNION { [1..n -> LineKinds] : n \in 0..MaxBody }
Pads == { [k \in 1..n |-> <<"x">>] : n \in 0..MaxPad }

\* the text of the lines ls, the last one with a newline only when nl
Text(ls, nl) ==
    LET full == WriteLines([k \in 1..Len(ls) |-> ls[k] \o <<"NL">>])
    IN IF nl \/ full = <<>> THEN full ELSE SubSeq(full, 1, Len(full) - 1)

Files == { Text(p \o b, nl) : p \in Pads, b \in Bodies, nl \in BOOLEAN }

Suffixes ==
    { <<".", "c">>, <<".", "C", "p", "p">>, <<".", "h">>, <<".", "H", "P", "P">>,
      <<".", "s", "h">>, <<".", "B", "a", "s", "h">>, <<".", "p", "y">>,
      <<".", "T", "e", "X">>, <<".", "t", "x", "t">>, <<>> }

\* main() is not running
MainIdle ==
    /\ args = <<>> /\ git = "clean" /\ fs = <<>> /\ fs0 = <<>> /\ mpc = "idle"
    /\ argi = 0 /\ todo = {} /\ rc = 0 /\ queries = <<>> /\ processed = <<>>

----------------------------------------------------------------------------
(* decide_notice on one file, called MaxRuns times in a row *)

\* calls of decide_notice on the same file
MaxRuns == 2

InitDecide ==
    /\ content \in Files
    /\ suffix \in Suffixes
    /\ pc = "start" /\ run = 1
    /\ old = -1 /\ prefix = <<>> /\ insert_line = 0 /\ start = 0
    /\ before = content /\ first = <<>> /\ mid = <<>>
    /\ MainIdle

\* line 156
Detect ==
    /\ pc = "start" /\ run <= MaxRuns
    /\ old' = has_file_notice(content, DefaultEnd)
    /\ before' = content
    /\ pc' = "detected"
    /\ UNCHANGED <<content, suffix, prefix, insert_line, run, first, mid, start, mainVars>>

\* lines 157-159
RemoveOld ==
    /\ pc = "detected"
    /\ content' = IF old # -1 THEN remove_existing_notice(content, old) ELSE content
    /\ pc' = "removed"
    /\ UNCHANGED <<suffix, old, prefix, insert_line, run, before, first, mid, start, mainVars>>

\* lines 164-182
Classify ==
    /\ pc = "removed"
    /\ prefix' = PrefixFor(suffix)
    /\ insert_line' = InsertLineFor(suffix, content)
    /\ mid' = content
    /\ pc' = "classified"
    /\ UNCHANGED <<content, suffix, old, run, before, first, start, mainVars>>

\* line 184
InsertNew ==
    /\ pc = "classified"
    /\ content' = insert_notice(content, prefix, insert_line)
    /\ first' = IF run = 1 THEN content' ELSE first
    /\ run' = run + 1
    /\ pc' = "start"
    /\ UNCHANGED <<suffix, old, prefix, insert_line, before, mid, start, mainVars>>

NextDecide == Detect \/ RemoveOld \/ Classify \/ InsertNew

SpecDecide == InitDecide /\ [][NextDecide]_vars

----------------------------------------------------------------------------
(* The per-file functions called directly: remove_existing_notice alone,    *)
(* and insert_notice, has_file_notice, remove_existing_notice in a row      *)

\* largest insert_line tried
MaxInsertLine == 6

Prefixes == { <<>>, <<"/", "/", " ">>, <<"#", " ">>, <<"%", " ">> }

InitCalls ==
    /\ content \in Files
    /\ suffix = <<>>
    /\ pc = "start" /\ run = 1
    /\ old = -1 /\ prefix = <<>> /\ insert_line = 0 /\ start = 0
    /\ before = content /\ first = <<>> /\ mid = <<>>
    /\ MainIdle

\* remove_existing_notice(path, st) on any file
CallRemove(st) ==
    /\ pc = "start"
    /\ start' = st
    /\ content' = remove_existing_notice(content, st)
    /\ pc' = "removed"
    /\ UNCHANGED <<suffix, old, prefix, insert_line, run, before, first, mid, mainVars>>

\* insert_notice(path, pfx, il) on a file that holds no marker
CallInsert(pfx, il) ==
    /\ pc = "start"
    /\ \A k \in 1..Len(content) : content[k] # NOTICE_MARKER
    /\ prefix' = pfx
    /\ insert_line' = il
    /\ content' = insert_notice(content, pfx, il)
    /\ mid' = content'
    /\ pc' = "inserted"
    /\ UNCHANGED <<suffix, old, run, before, first, start, mainVars>>

\* has_file_notice(path) after the insertion
CallHas ==
    /\ pc = "inserted"
    /\ old' = has_file_notice(content, DefaultEnd)
    /\ pc' = "found"
    /\ UNCHANGED <<content, suffix, prefix, insert_line, run, before, first, mid, start, mainVars>>

\* remove_existing_notice(path, index) with the index has_file_notice gave
CallRemoveFound ==
    /\ pc = "found"
    /\ start' = old
    /\ content' = remove_existing_notice(content, old)
    /\ pc' = "restored"
    /\ UNCHANGED <<suffix, old, prefix, insert_line, run, before, first, mid, mainVars>>

NextCalls ==
    \/ \E st \in 0..(Len(ReadLines(content)) + 1) : CallRemove(st)
    \/ \E pfx \in Prefixes : \E il \in (-1)..MaxInsertLine : CallInsert(pfx, il)
    \/ CallHas
    \/ CallRemoveFound

SpecCalls == InitCalls /\ [][NextCalls]_vars

----------------------------------------------------------------------------
(* Properties of the per-file functions *)

SetMin(S) == CHOOSE m \in S : \A k \in S : m <= k

\* the zero-based indices of the lines of s that contain the marker
MarkerLines(s) ==
    LET ls == ReadLines(s) IN { k \in 0..(Len(ls) - 1) : HasMarker(ls[k + 1]) }

\* the suffixes of Suffixes by the class the documentation gives them,
\* each spelled out, upper case included
CLikeShown == { <<".", "c">>, <<".", "C", "p", "p">>, <<".", "h">>, <<".", "H", "P", "P">> }
ScriptShown == { <<".", "s", "h">>, <<".", "B", "a", "s", "h">>, <<".", "p", "y">> }
TexShown == { <<".", "T", "e", "X">> }

BeginsWithShebang(s) == Len(s) >= 2 /\ s[1] = "#" /\ s[2] = "!"

\* the canonical line of the notice for a suffix in a file
CanonicalLine(sfx, s) == IF sfx \in ScriptShown /\ BeginsWithShebang(s) THEN 1 ELSE 0

\* decide_notice has returned at least once and is not running
Returned == pc = "start" /\ run > 1

\* C1 (as claimed): after two calls of decide_notice the file is the file after
\* one call, and it holds exactly one line with the marker.
C1_Idempotent ==
    (pc = "start" /\ run > 2) =>
        (content = first /\ Cardinality(MarkerLines(first)) = 1)

\* C2 (as claimed): after decide_notice returns, exactly one line holds the
\* marker and it is the canonical line for the suffix, whatever the file held.
C2_OneNoticeAlways ==
    Returned => MarkerLines(content) = { CanonicalLine(suffix, content) }

\* the file before the call held no marker line but the one has_file_notice found
OnlyFoundMarker == MarkerLines(before) \subseteq { old }

\* the file after the removal is one shebang line without a newline
LoneOpenShebang ==
    /\ suffix \in ScriptShown /\ BeginsWithShebang(mid)
    /\ \A k \in 1..Len(mid) : mid[k] # "NL"

\* C2, what the code does keep: when the file before the call held no marker
\* line other than the one has_file_notice finds in its first five lines, then
\* after decide_notice returns exactly one line holds the marker, and it is the
\* canonical line (0, or 1 for a script-like file whose first line after the
\* removal starts with "#!"); but a shebang line that is the whole file and has
\* no newline gets the notice appended to itself, on line 0.
C2_OneNoticeWhenFound ==
    (Returned /\ OnlyFoundMarker) =>
        MarkerLines(content) =
            { IF LoneOpenShebang THEN 0 ELSE CanonicalLine(suffix, mid) }

\* a script with a shebang and an old notice on line 2 ends with its one notice
\* on line 1.
C2_MovedNotice ==
    /\ Returned /\ run = 2 /\ old = 2 /\ MarkerLines(before) = {2}
    /\ suffix = <<".", "p", "y">> /\ BeginsWithShebang(before)
    /\ MarkerLines(content) = {1}

\* C5: the prefix and the line decide_notice chooses: "// " at 0 for C-like,
\* "# " for script-like at 1 when the file as it stands after the removal starts
\* with "#!" and at 0 otherwise, "% " at 0 for .tex, "// " at 0 for anything
\* else; upper and lower case alike.
C5_Dispatch ==
    pc = "classified" =>
        /\ suffix \in CLikeShown => (prefix = <<"/", "/", " ">> /\ insert_line = 0)
        /\ suffix \in ScriptShown =>
             /\ prefix = <<"#", " ">>
             /\ insert_line = IF BeginsWithShebang(content) THEN 1 ELSE 0
        /\ suffix \in TexShown => (prefix = <<"%", " ">> /\ insert_line = 0)
        /\ suffix \notin (CLikeShown \cup ScriptShown \cup TexShown) =>
             (prefix = <<"/", "/", " ">> /\ insert_line = 0)

\* C5 witness: a .Bash file whose old notice stood above the shebang is
\* classified for line 1 once the notice is removed.
C5_Witness ==
    /\ pc = "classified" /\ suffix = <<".", "B", "a", "s", "h">>
    /\ old = 0 /\ ~BeginsWithShebang(before)
    /\ prefix = <<"#", " ">> /\ insert_line = 1

\* the first of the lines 0..4 of s that holds the marker, or -1
FirstInWindow(s) ==
    LET hits == { k \in MarkerLines(s) : k <= 4 }
    IN IF hits = {} THEN -1 ELSE SetMin(hits)

\* C7: has_file_notice answers the first of the lines 0..4 that holds the
\* marker, or -1; and when the marker stands only on line 5 or later,
\* decide_notice keeps every line of the file, inserts one notice block and so
\* leaves one more marker line than before (two when there was one).
C7_ScanWindow ==
    /\ pc = "detected" => old = FirstInWindow(before)
    /\ (Returned /\ MarkerLines(before) # {} /\ \A k \in MarkerLines(before) : k >= 5) =>
          LET b == ReadLines(before)
              a == ReadLines(content)
              at == CanonicalLine(suffix, before)
          IN /\ old = -1
             /\ Len(a) = Len(b) + 3
             /\ SubSeq(a, 1, at) = SubSeq(b, 1, at)
             /\ SubSeq(a, at + 4, Len(a)) = SubSeq(b, at + 1, Len(b))
             /\ Cardinality(MarkerLines(content)) = Cardinality(MarkerLines(before)) + 1
             /\ (Cardinality(MarkerLines(before)) = 1 =>
                   Cardinality(MarkerLines(content)) = 2)

\* C7 witness: the marker stood on line 5 only, and two lines hold it afterwards.
C7_Witness ==
    /\ Returned /\ MarkerLines(before) = {5}
    /\ Cardinality(MarkerLines(content)) = 2

\* what remove_existing_notice is said to leave of the lines ls
KeptLines(ls, st) ==
    LET ms == { k \in (st + 1)..Len(ls) : HasMarker(ls[k]) }
    IN IF ms = {} THEN ls
       ELSE LET m == SetMin(ms)
                bs == { k \in (m + 1)..Len(ls) : IsBlank(ls[k]) }
            IN IF bs = {} THEN SubSeq(ls, 1, m - 1)
               ELSE SubSeq(ls, 1, m - 1) \o SubSeq(ls, SetMin(bs) + 1, Len(ls))

\* C9: remove_existing_notice(file, start) keeps the lines before start, drops
\* the first line at or after start that holds the marker and what follows it
\* up to and including the first blank line (or to the end of the file), and
\* keeps every later line, marker or not.
C9_RemoveFirstOnly ==
    pc = "removed" => content = WriteLines(KeptLines(ReadLines(before), start))

\* C9 witness: of two notices the first is removed and the second is kept.
C9_Witness ==
    /\ pc = "removed" /\ start = 0
    /\ Cardinality(MarkerLines(before)) = 2
    /\ Cardinality(MarkerLines(content)) = 1

\* C4 (as claimed): insert_notice, has_file_notice and remove_existing_notice in
\* a row give back the file that held no marker.
C4_RoundTrip == pc = "restored" => content = before

----------------------------------------------------------------------------
(* main(): the command line, git and the file tree *)

\* most command-line arguments of one invocation
MaxArgs == 2

\* A path is a sequence of names; a name is a stem and the suffix pathlib
\* gives it.  An argument is a path, relative or absolute.
Name(stem, ext) == [stem |-> stem, ext |-> ext]
Rel(parts) == [abs |-> FALSE, parts |-> parts]
Abs(parts) == [abs |-> TRUE, parts |-> parts]

\* what git rev-parse --show-toplevel prints
RootDir == << Name("repo", <<>>) >>

DirD == RootDir \o << Name("d", <<>>) >>
DirSub == DirD \o << Name("sub", <<>>) >>
FileA == RootDir \o << Name("a", <<".", "p", "y">>) >>
FileF == DirD \o << Name("f", <<".", "c">>) >>
FileG == DirSub \o << Name("g", <<".", "s", "h">>) >>
FileH == << Name("elsewhere", <<>>), Name("h", <<".", "t", "e", "x">>) >>

\* the directories and the regular files that exist
Dirs == { RootDir, DirD, DirSub, << Name("elsewhere", <<>>) >> }
RegularFiles == { FileA, FileF, FileG, FileH }

\* the text each file starts with
InitialText(f) ==
    IF f = FileA THEN <<"#", "!", "NL", "x", "NL">>
    ELSE IF f = FileF THEN <<"x", "NL">>
    ELSE IF f = FileG THEN <<"x", "MARKER", "NL", "NL", "x">>
    ELSE <<>>

HelpArg == Rel(<< Name("--help", <<>>) >>)

\* the arguments an invocation may be given
ArgChoices ==
    { HelpArg,
      Rel(<< Name("a", <<".", "p", "y">>) >>),
      Rel(<< Name("d", <<>>) >>),
      Rel(<< Name("nope", <<".", "c">>) >>),
      Abs(FileH),
      Abs(DirSub) }

\* what the directory answers to git:
\*   "outside"   rev-parse --is-inside-work-tree fails
\*   "gitdir"    rev-parse --is-inside-work-tree prints false
\*   "noroot"    inside a work tree, but rev-parse --show-toplevel fails
\*   "dirty"     status --porcelain prints changes
\*   "statuserr" status --porcelain fails
\*   "clean"     status --porcelain prints nothing
GitStates == { "outside", "gitdir", "noroot", "dirty", "statuserr", "clean" }

\* is_git_work_tree(): lines 37-48
is_git_work_tree(g) == g \notin { "outside", "gitdir" }

\* git_root() returns (no CalledProcessError): lines 51-63
git_root_found(g) == g # "noroot"

\* a git_work_tree_clean that takes a failed status query for a clean tree
git_work_tree_clean_lax(g) == g \in { "clean", "statuserr" }

\* git_work_tree_clean(): lines 66-80
git_work_tree_clean(g) == g = "clean"

\* a help test that looks at the first argument only
WantsHelpFirst(a) == IF Len(a) = 0 THEN TRUE ELSE a[1] = HelpArg

\* line 200: "--help" in args or len(args) == 0
WantsHelp(a) == (\E k \in 1..Len(a) : a[k] = HelpArg) \/ Len(a) = 0

\* a resolution that takes every argument as given
ResolveAsGiven(a) == a.parts

\* lines 219-221: Path(p), joined to the root when it is not absolute
Resolve(a) == IF a.abs THEN a.parts ELSE RootDir \o a.parts

\* path.is_file() / path.is_dir()
is_file(p) == p \in DOMAIN fs
is_dir(p) == p \in Dirs

\* a permission test that asks for read access only
AccessRead(f) == fs[f].r

\* line 227: os.access(file_path, os.W_OK | os.R_OK)
Access(f) == fs[f].r /\ fs[f].w

\* path.rglob("*"): everything below the directory p
RGlob(p) ==
    { q \in DOMAIN fs \cup Dirs : Len(q) > Len(p) /\ SubSeq(q, 1, Len(p)) = p }

\* file_path.suffix
SuffixOf(p) == p[Len(p)].ext

\* the per-file functions are not running
FileIdle ==
    /\ content = <<>> /\ suffix = <<>> /\ pc = "idle" /\ run = 0
    /\ old = -1 /\ prefix = <<>> /\ insert_line = 0 /\ start = 0
    /\ before = <<>> /\ first = <<>> /\ mid = <<>>

InitMain ==
    /\ args \in UNION { [1..n -> ArgChoices] : n \in 0..MaxArgs }
    /\ git \in GitStates
    /\ fs \in { [f \in RegularFiles |->
                   [r |-> IF f = FileH THEN TRUE ELSE perm[f][1],
                    w |-> IF f = FileH THEN TRUE ELSE perm[f][2],
                    content |-> InitialText(f)]]
                : perm \in [RegularFiles -> BOOLEAN \X BOOLEAN] }
    /\ fs0 = fs
    /\ mpc = "start" /\ argi = 0 /\ todo = {} /\ rc = 0
    /\ queries = <<>> /\ processed = <<>>
    /\ FileIdle

\* decide_notice(f) called from main for argument number argi
Decided(f) ==
    /\ fs' = [fs EXCEPT ![f].content = decide_notice(@, SuffixOf(f))]
    /\ processed' = Append(processed, [path |-> f, arg |-> argi])

\* lines 199-202
ShowUsage ==
    /\ mpc = "start" /\ WantsHelp(args)
    /\ rc' = 0 /\ mpc' = "exit"
    /\ UNCHANGED <<args, git, fs, fs0, argi, todo, queries, processed, fileVars>>

\* lines 199-200, no help wanted
ParseArgs ==
    /\ mpc = "start" /\ ~WantsHelp(args)
    /\ mpc' = "tree"
    /\ UNCHANGED <<args, git, fs, fs0, argi, todo, rc, queries, processed, fileVars>>

\* lines 204-206
CheckWorkTree ==
    /\ mpc = "tree"
    /\ queries' = Append(queries, [q |-> "is-inside-work-tree", ok |-> is_git_work_tree(git)])
    /\ IF is_git_work_tree(git)
       THEN mpc' = "root" /\ rc' = rc
       ELSE mpc' = "exit" /\ rc' = -1
    /\ UNCHANGED <<args, git, fs, fs0, argi, todo, processed, fileVars>>

\* line 208, with git_root's sys.exit(1) at line 63
FindRoot ==
    /\ mpc = "root"
    /\ queries' = Append(queries, [q |-> "show-toplevel", ok |-> git_root_found(git)])
    /\ IF git_root_found(git)
       THEN mpc' = "clean" /\ rc' = rc
       ELSE mpc' = "exit" /\ rc' = 1
    /\ UNCHANGED <<args, git, fs, fs0, argi, todo, processed, fileVars>>

\* lines 210-216
CheckClean ==
    /\ mpc = "clean"
    /\ queries' = Append(queries, [q |-> "status", ok |-> git_work_tree_clean(git)])
    /\ IF git_work_tree_clean(git)
       THEN mpc' = "loop" /\ rc' = rc /\ argi' = 1
       ELSE mpc' = "exit" /\ rc' = -1 /\ argi' = argi
    /\ UNCHANGED <<args, git, fs, fs0, todo, processed, fileVars>>

\* lines 218-223: the argument names a regular file.  decide_notice opens it
\* for reading and then for writing; without the permission the open raises
\* before anything is written and the exception ends main.
HandleFile ==
    /\ mpc = "loop" /\ argi <= Len(args)
    /\ is_file(Resolve(args[argi]))
    /\ IF Access(Resolve(args[argi]))
       THEN /\ Decided(Resolve(args[argi]))
            /\ argi' = argi + 1
            /\ UNCHANGED <<mpc, rc>>
       ELSE /\ mpc' = "crashed" /\ rc' = 1
            /\ UNCHANGED <<fs, processed, argi>>
    /\ UNCHANGED <<args, git, fs0, todo, queries, fileVars>>

\* lines 224-225: the argument names a directory
EnterDir ==
    /\ mpc = "loop" /\ argi <= Len(args)
    /\ ~is_file(Resolve(args[argi])) /\ is_dir(Resolve(args[argi]))
    /\ todo' = RGlob(Resolve(args[argi]))
    /\ mpc' = "walk"
    /\ UNCHANGED <<args, git, fs, fs0, argi, rc, queries, processed, fileVars>>

\* lines 225-229: one entry of the walk, in whatever order rglob yields them
WalkEntry(e) ==
    /\ mpc = "walk" /\ e \in todo
    /\ todo' = todo \ {e}
    /\ IF ~is_file(e) \/ ~Access(e)
       THEN UNCHANGED <<fs, processed>>
       ELSE Decided(e)
    /\ UNCHANGED <<args, git, fs0, mpc, argi, rc, queries, fileVars>>

\* line 225: the walk is over
LeaveDir ==
    /\ mpc = "walk" /\ todo = {}
    /\ mpc' = "loop" /\ argi' = argi + 1
    /\ UNCHANGED <<args, git, fs, fs0, todo, rc, queries, processed, fileVars>>

\* lines 222-224: the argument names neither a file nor a directory
SkipMissing ==
    /\ mpc = "loop" /\ argi <= Len(args)
    /\ ~is_file(Resolve(args[argi])) /\ ~is_dir(Resolve(args[argi]))
    /\ argi' = argi + 1
    /\ UNCHANGED <<args, git, fs, fs0, mpc, todo, rc, queries, processed, fileVars>>

\* line 231
ReturnZero ==
    /\ mpc = "loop" /\ argi > Len(args)
    /\ rc' = 0 /\ mpc' = "exit"
    /\ UNCHANGED <<args, git, fs, fs0, argi, todo, queries, processed, fileVars>>

NextMain ==
    \/ ShowUsage \/ ParseArgs \/ CheckWorkTree \/ FindRoot \/ CheckClean
    \/ HandleFile \/ EnterDir \/ (\E e \in todo : WalkEntry(e)) \/ LeaveDir
    \/ SkipMissing \/ ReturnZero

SpecMain == InitMain /\ [][NextMain]_vars

----------------------------------------------------------------------------
(* Properties of main() *)

HelpGiven == \E k \in 1..Len(args) : args[k] = HelpArg

\* the absolute path an argument stands for
Target(a) == IF a.abs THEN a.parts ELSE RootDir \o a.parts

Below(d, f) == Len(f) > Len(d) /\ SubSeq(f, 1, Len(d)) = d

ReadWrite(f) == fs0[f].r /\ fs0[f].w

\* decide_notice was called on f for argument number k
Called(f, k) == \E n \in 1..Len(processed) : processed[n] = [path |-> f, arg |-> k]

\* query q was made and answered ok, as entry number n of the log
Answered(n, q) == n \in 1..Len(queries) /\ queries[n] = [q |-> q, ok |-> TRUE]

BothGuardsPassed ==
    \E i, j \in 1..Len(queries) :
        i < j /\ Answered(i, "is-inside-work-tree") /\ Answered(j, "status")

\* C3: with path arguments and no --help, outside a work tree or with a tree
\* that is not clean (a failed status query included) no file is modified and
\* main returns nonzero; and in every execution a file is written only after
\* is_git_work_tree() and git_work_tree_clean() have both returned true.
C3_Guard ==
    /\ (args # <<>> /\ ~HelpGiven /\ git \in {"outside", "gitdir", "dirty", "statuserr"}) =>
          /\ fs = fs0 /\ processed = <<>>
          /\ mpc # "crashed"
          /\ mpc = "exit" => rc # 0
    /\ (fs # fs0 \/ processed # <<>>) => BothGuardsPassed

\* C3 witness: a readable and writable file is named, the status query itself
\* fails, and main has returned -1 after its three queries with the files as
\* they were.
C3_Witness ==
    /\ mpc = "exit" /\ rc = -1 /\ git = "statuserr"
    /\ Len(args) = 1 /\ Target(args[1]) = FileA /\ ReadWrite(FileA)
    /\ Len(queries) = 3 /\ fs = fs0

\* C8: with --help anywhere among the arguments, or no argument, main returns 0
\* without a git query and without touching a file, whatever git would answer;
\* otherwise the work-tree check comes before the cleanliness check, the paths
\* are processed after both and in argument order, and 0 is returned after the
\* last path.
C8_HelpFirst ==
    /\ (HelpGiven \/ args = <<>>) =>
          /\ queries = <<>> /\ fs = fs0 /\ processed = <<>>
          /\ mpc \in {"start", "exit"}
          /\ mpc = "exit" => rc = 0
    /\ ~(HelpGiven \/ args = <<>>) =>
          /\ \A n \in 1..Len(queries) :
                queries[n].q = "status" =>
                    \E i \in 1..(n - 1) : Answered(i, "is-inside-work-tree")
          /\ (mpc \in {"loop", "walk", "crashed"} \/ processed # <<>>) => BothGuardsPassed
          /\ \A i, j \in 1..Len(processed) :
                i < j => processed[i].arg <= processed[j].arg
          /\ (mpc = "exit" /\ rc = 0) => (BothGuardsPassed /\ argi = Len(args) + 1)

\* C8 witness: --help after a path, in a directory that is no work tree: usage
\* and 0.
C8_Witness ==
    /\ mpc = "exit" /\ rc = 0 /\ git = "outside"
    /\ Len(args) = 2 /\ Target(args[1]) = FileA /\ args[2] = HelpArg

\* C6: once a directory argument has been walked, decide_notice has been called
\* on every regular file below it that is readable and writable; a file that is
\* not readable or not writable is never modified; and a modified file is named
\* by an argument or lies below a directory an argument names.
C6_DirectoryWalk ==
    /\ \A f \in RegularFiles : ~ReadWrite(f) => fs[f] = fs0[f]
    /\ \A f \in RegularFiles :
          fs[f] # fs0[f] =>
              \E k \in 1..Len(args) : Target(args[k]) = f \/ Below(Target(args[k]), f)
    /\ \A k \in 1..Len(args) :
          (mpc \in {"loop", "walk", "exit", "crashed"} /\ k < argi
             /\ Target(args[k]) \in Dirs) =>
              \A f \in RegularFiles :
                  (Below(Target(args[k]), f) /\ ReadWrite(f)) =>
                      (Called(f, k) /\ MarkerLines(fs[f].content) # {})

\* C6 witness: of the two files below d one is unreadable; the other is
\* processed and the unreadable one is as it was.
C6_Witness ==
    /\ mpc = "exit" /\ rc = 0 /\ Len(args) = 1 /\ Target(args[1]) = DirD
    /\ ReadWrite(FileF) /\ ~fs0[FileG].r
    /\ processed = << [path |-> FileF, arg |-> 1] >>
    /\ fs[FileF] # fs0[FileF] /\ fs[FileG] = fs0[FileG]

\* C10: when the guards pass, an argument that names neither a file nor a
\* directory leads to no call of decide_notice and to no error; the arguments
\* before and after it that name files are processed, relative ones taken
\* against the git root and absolute ones as given; and main returns 0.
C10_MissingSkipped ==
    (~(HelpGiven \/ args = <<>>) /\ git = "clean") =>
        /\ mpc = "crashed" => (argi \in 1..Len(args) /\ Target(args[argi]) \in RegularFiles)
        /\ \A k \in 1..Len(args) :
              /\ Target(args[k]) \notin (RegularFiles \cup Dirs) =>
                    \A n \in 1..Len(processed) : processed[n].arg # k
              /\ (k < argi /\ Target(args[k]) \in RegularFiles) =>
                    Called(Target(args[k]), k)
        /\ \A f \in RegularFiles :
              fs[f] # fs0[f] => \E n \in 1..Len(processed) : processed[n].path = f
        /\ mpc = "exit" => (rc = 0 /\ argi = Len(args) + 1)

\* C10 witness: a missing path before a relative file: the file is processed
\* under the git root and main returns 0.
C10_Witness ==
    /\ mpc = "exit" /\ rc = 0 /\ git = "clean" /\ Len(args) = 2
    /\ Target(args[1]) \notin (RegularFiles \cup Dirs)
    /\ ~args[2].abs /\ Target(args[2]) = FileA
    /\ processed = << [path |-> FileA, arg |-> 2] >>
    /\ fs[FileA] # fs0[FileA]

====
